---------------------------- MODULE Spec2Model ----------------------------
(***************************************************************************)
(* A model of collectd's snmp plugin (src/snmp.c): the configuration      *)
(* binder (Data / Host / Collect declarations), value coercion and the    *)
(* poll cycle csnmp_read -> csnmp_read_host -> csnmp_read_value.           *)
(***************************************************************************)
EXTENDS Integers, Sequences, FiniteSets, TLC

VARIABLES
  lp64,        \* the build: TRUE when `long' is 64 bits wide, FALSE when 32
  cv_vb,       \* csnmp_value_list_to_value: the variable_list argument
  cv_type,     \* csnmp_value_list_to_value: the `type' argument
  cv_ret,      \* csnmp_value_list_to_value: <<the returned value_t>>, <<>> before a call
  data_head,   \* the data registry: the list of data_definition_t, in order
  host_head,   \* the host registry: the list of host_definition_t, in order
  have_init,   \* call_snmp_init_once: its static flag
  init_calls,  \* the number of times init_snmp has been called
  calls,       \* the calls of csnmp_config and csnmp_init made so far: "none",
               \* "one", or "more" for two and above
  cfg_pc,      \* csnmp_config: "idle" outside a call, "children" inside its loop
  cfg_ret,     \* csnmp_config: the value the last call returned, <<>> before any
  last,        \* the child csnmp_config processed last, and what became of it
  rd_pc,       \* csnmp_read: "idle", "host" (before snmp_open), "loop" (in the loop
               \* of csnmp_read_host), "dispatch" (before plugin_dispatch_values)
  rd_host,     \* csnmp_read: the host being polled (its position in host_head)
  rd_i,        \* csnmp_read_host: the loop index into the host's data_list (from 1)
  rd_ret,      \* csnmp_read: the value the last call returned, <<>> before any
  sessions,    \* the sessions snmp_open has opened and snmp_close has not closed
  res,         \* csnmp_read_value: the variables of the response, <<>> outside
  vl,          \* csnmp_read_value: the value_list_t it fills, <<>> outside
  trace,       \* what the cycle has done so far: the calls into net-snmp and the daemon
  ov           \* a second call of csnmp_read that overlaps the first: its position
               \* [pc, host, i], read as rd_pc, rd_host and rd_i are

cv_vars == <<cv_vb, cv_type, cv_ret>>
reg_vars == <<data_head, host_head>>
cfg_vars == <<have_init, init_calls, calls, cfg_pc, cfg_ret, last>>
rd_vars == <<rd_pc, rd_host, rd_i, rd_ret, sessions, res, vl, trace, ov>>
vars == <<lp64, cv_vars, reg_vars, cfg_vars, rd_vars>>

-----------------------------------------------------------------------------
(* Bit strings, most significant bit first.  TLC's integers are 32 bits     *)
(* wide, so the 64-bit quantities of the code are kept as bit strings.      *)

Rep(b, n) == [i \in 1..n |-> b]

RECURSIVE NatToBits(_, _)
NatToBits(n, w) == IF w = 0 THEN <<>> ELSE Append(NatToBits(n \div 2, w - 1), n % 2)

RECURSIVE Strip(_)
Strip(b) == IF Len(b) = 0 \/ b[1] = 1 THEN b ELSE Strip(Tail(b))

RECURSIVE Inc(_)
Inc(b) ==
  IF Len(b) = 0 THEN <<1>>
  ELSE IF b[Len(b)] = 0 THEN [b EXCEPT ![Len(b)] = 1]
  ELSE Append(Inc(SubSeq(b, 1, Len(b) - 1)), 0)

SignExt64(w) == Rep(w[1], 64 - Len(w)) \o w
ZeroExt64(w) == Rep(0, 64 - Len(w)) \o w
Zero64 == Rep(0, 64)

\* (double) of an unsigned 64-bit integer: round to nearest, ties to even, at
\* 53 significant bits.  The result is the bit string of the (integral) double,
\* without leading zeros.
DoubleMantissa == 53
ToDouble(b) ==
  LET s == Strip(b)
      n == Len(s)
  IN IF n <= DoubleMantissa THEN s
     ELSE LET keep == SubSeq(s, 1, DoubleMantissa)
              rest == SubSeq(s, DoubleMantissa + 1, n)
              sticky == \E i \in 2..Len(rest) : rest[i] = 1
              up == rest[1] = 1 /\ (sticky \/ keep[DoubleMantissa] = 1)
          IN (IF up THEN Inc(keep) ELSE keep) \o Rep(0, n - DoubleMantissa)

-----------------------------------------------------------------------------
(* Value coercion: csnmp_value_list_to_value.                               *)

AsnRecognized == {"ASN_INTEGER", "ASN_UINTEGER", "ASN_COUNTER", "ASN_GAUGE", "ASN_COUNTER64"}
AsnOther == {"ASN_OCTET_STR", "ASN_NULL"}
AsnTypes == AsnRecognized \cup AsnOther
DsTypes == {"DS_TYPE_COUNTER", "DS_TYPE_GAUGE"}

\* value_t: the counter member (64 bits) or the gauge member (a double: NaN,
\* or the bit string of its integral value)
NAN == [gauge |-> <<>>, nan |-> TRUE]
Counter(b) == [counter |-> b]
Gauge(b) == [gauge |-> ToDouble(b), nan |-> FALSE]
IsGauge(v) == DOMAIN v = {"gauge", "nan"}
IsCounter(v) == DOMAIN v = {"counter"}
IsNaN(v) == IsGauge(v) /\ v.nan

\* `temp = *vl->val.integer': the object is read as a `long' and converted to
\* uint64_t.  net-snmp keeps an ASN_INTEGER as a signed long and the unsigned
\* types as an unsigned long in the same storage; where long is 32 bits wide
\* the read of an unsigned value with its top bit set is negative too.
LongToU64(vtype, w) ==
  IF vtype = "ASN_INTEGER" \/ ~lp64 THEN SignExt64(w) ELSE ZeroExt64(w)

\* A variant in which the `defined' flag is not consulted for gauges.
csnmp_value_list_to_value_nodef(vb, type) ==
  LET temp == IF vb.type \in {"ASN_INTEGER", "ASN_UINTEGER", "ASN_COUNTER", "ASN_GAUGE"}
                THEN LongToU64(vb.type, vb.integer)
              ELSE IF vb.type = "ASN_COUNTER64" THEN vb.high \o vb.low
              ELSE Zero64
  IN IF type = "DS_TYPE_COUNTER" THEN Counter(temp) ELSE Gauge(temp)

csnmp_value_list_to_value(vb, type) ==
  LET known == vb.type \in {"ASN_INTEGER", "ASN_UINTEGER", "ASN_COUNTER", "ASN_GAUGE"}
      temp == IF known THEN LongToU64(vb.type, vb.integer)
              ELSE IF vb.type = "ASN_COUNTER64" THEN vb.high \o vb.low
              ELSE Zero64
      defined == known \/ vb.type = "ASN_COUNTER64"
  IN IF type = "DS_TYPE_COUNTER" THEN Counter(temp)
     ELSE IF defined THEN Gauge(temp) ELSE NAN

-----------------------------------------------------------------------------
(* Strings.  strcasecmp compares after folding case; Fold is tolower on the  *)
(* strings of the model.                                                    *)

NULL == "<NULL>"

Fold(s) ==
  CASE s = "D1" -> "d1" [] s = "D2" -> "d2" [] s = "H1" -> "h1" [] s = "H2" -> "h2"
    [] s = "Data" -> "data" [] s = "Host" -> "host" [] s = "Collect" -> "collect"
    [] s = "Type" -> "type" [] s = "TYPE" -> "type" [] s = "Table" -> "table"
    [] s = "Instance" -> "instance" [] s = "Values" -> "values"
    [] s = "Address" -> "address" [] s = "Community" -> "community"
    [] s = "Version" -> "version" [] s = "Interval" -> "interval"
    [] OTHER -> s

strcasecmp(a, b) == IF Fold(a) = Fold(b) THEN 0 ELSE 1

(* oconfig: a value is a string, a number or a boolean; an item has a key,  *)
(* values and children.  A number is a double: `number' is its integral     *)
(* part and `frac' its fraction in thousandths, of the same sign.           *)
Str(s) ==
  [type |-> "OCONFIG_TYPE_STRING", string |-> s, number |-> 0, frac |-> 0, boolean |-> FALSE]
NumFrac(n, f) ==
  [type |-> "OCONFIG_TYPE_NUMBER", string |-> "", number |-> n, frac |-> f, boolean |-> FALSE]
Num(n) == NumFrac(n, 0)
Bool(b) ==
  [type |-> "OCONFIG_TYPE_BOOLEAN", string |-> "", number |-> 0, frac |-> 0, boolean |-> b]

\* (int) of a double: the fraction is discarded
IntCast(v) == v.number
Item(k, vs, cs) == [key |-> k, values |-> vs, children |-> cs]
Opt(k, vs) == Item(k, vs, <<>>)

OneOfType(ci, t) == Len(ci.values) = 1 /\ ci.values[1].type = t

(* snmp_parse_oid / read_objid (net-snmp): the textual OIDs of the model.   *)
ParseOid(s) ==
  CASE s = "1.3.6.1.1" -> <<1, 3, 6, 1, 1>>
    [] s = "1.3.6.1.2" -> <<1, 3, 6, 1, 2>>
    [] s = "1.3.6.1.9" -> <<1, 3, 6, 1, 9>>
    [] OTHER -> <<>>
OidOk(s) == ParseOid(s) # <<>>

(* snmp_oid_compare(a, b) == 0: the same length and the same sub-identifiers *)
snmp_oid_compare(a, b) ==
  IF a = b THEN 0
  ELSE IF \E i \in 1..Len(a) :
            /\ i <= Len(b) /\ SubSeq(a, 1, i - 1) = SubSeq(b, 1, i - 1) /\ a[i] > b[i]
         THEN 1
  ELSE IF Len(a) > Len(b) /\ SubSeq(a, 1, Len(b)) = b THEN 1
  ELSE -1

(* plugin_get_ds: the daemon's data sets (types.db), NULL when undefined.   *)
DataSets ==
  [if_octets |-> <<"DS_TYPE_COUNTER", "DS_TYPE_COUNTER">>,
   temperature |-> <<"DS_TYPE_GAUGE">>,
   snmp_mixed |-> <<"DS_TYPE_COUNTER", "DS_TYPE_GAUGE">>]
plugin_get_ds(type) == IF type \in DOMAIN DataSets THEN DataSets[type] ELSE <<>>

-----------------------------------------------------------------------------
(* Data definitions: csnmp_config_add_data and its option handlers.  Each   *)
(* handler yields the definition as it leaves it and its return status.     *)

Ret(x, st) == [obj |-> x, status |-> st]

\* memset (dd, 0, ...) with the name set
NewData(name) ==
  [name |-> name, type |-> NULL, is_table |-> 0,
   instance |-> [form |-> "zero", string |-> "", oid |-> <<>>],
   values |-> <<>>, values_len |-> 0]

csnmp_config_add_data_type(dd, ci) ==
  IF ~OneOfType(ci, "OCONFIG_TYPE_STRING") THEN Ret(dd, -1)
  ELSE Ret([dd EXCEPT !.type = ci.values[1].string], 0)

csnmp_config_add_data_table(dd, ci) ==
  IF ~OneOfType(ci, "OCONFIG_TYPE_BOOLEAN") THEN Ret(dd, -1)
  ELSE Ret([dd EXCEPT !.is_table = IF ci.values[1].boolean THEN 1 ELSE 0], 0)

csnmp_config_add_data_instance(dd, ci) ==
  IF ~OneOfType(ci, "OCONFIG_TYPE_STRING") THEN Ret(dd, -1)
  ELSE IF dd.is_table # 0
    THEN IF ~OidOk(ci.values[1].string) THEN Ret(dd, -1)
         ELSE Ret([dd EXCEPT !.instance =
                     [form |-> "oid", string |-> "", oid |-> ParseOid(ci.values[1].string)]], 0)
    ELSE Ret([dd EXCEPT !.instance =
                [form |-> "string", string |-> ci.values[1].string, oid |-> <<>>]], 0)

csnmp_config_add_data_values(dd, ci) ==
  IF Len(ci.values) < 1 THEN Ret(dd, -1)
  ELSE IF \E i \in 1..Len(ci.values) : ci.values[i].type # "OCONFIG_TYPE_STRING"
    THEN Ret(dd, -1)
  ELSE IF \E i \in 1..Len(ci.values) : ~OidOk(ci.values[i].string)
    THEN Ret([dd EXCEPT !.values = <<>>, !.values_len = 0], -1)
  ELSE Ret([dd EXCEPT !.values = [i \in 1..Len(ci.values) |-> ParseOid(ci.values[i].string)],
                      !.values_len = Len(ci.values)], 0)

\* A variant that warns about an option it does not know and goes on.
DataOption_ignore(dd, option) ==
  IF strcasecmp("Type", option.key) = 0 THEN csnmp_config_add_data_type(dd, option)
  ELSE IF strcasecmp("Table", option.key) = 0 THEN csnmp_config_add_data_table(dd, option)
  ELSE IF strcasecmp("Instance", option.key) = 0 THEN csnmp_config_add_data_instance(dd, option)
  ELSE IF strcasecmp("Values", option.key) = 0 THEN csnmp_config_add_data_values(dd, option)
  ELSE Ret(dd, 0)

\* one pass of the loop over ci->children
DataOption(dd, option) ==
  IF strcasecmp("Type", option.key) = 0 THEN csnmp_config_add_data_type(dd, option)
  ELSE IF strcasecmp("Table", option.key) = 0 THEN csnmp_config_add_data_table(dd, option)
  ELSE IF strcasecmp("Instance", option.key) = 0 THEN csnmp_config_add_data_instance(dd, option)
  ELSE IF strcasecmp("Values", option.key) = 0 THEN csnmp_config_add_data_values(dd, option)
  ELSE Ret(dd, -1)

\* for (i = 0; i < ci->children_num; i++) { ...; if (status != 0) break; }
RECURSIVE DataOptions(_, _, _)
DataOptions(dd, children, i) ==
  IF i > Len(children) THEN Ret(dd, 0)
  ELSE LET r == DataOption(dd, children[i])
       IN IF r.status # 0 THEN r ELSE DataOptions(r.obj, children, i + 1)

\* A variant that does not ask whether a `Type' was given.
csnmp_config_add_data_notype(dh, ci) ==
  IF ~OneOfType(ci, "OCONFIG_TYPE_STRING") THEN Ret(dh, -1)
  ELSE LET r == DataOptions(NewData(ci.values[1].string), ci.children, 1)
           dd == r.obj
           status == IF r.status # 0 THEN r.status
                     ELSE IF dd.values = <<>> THEN -1
                     ELSE 0
       IN IF status # 0 THEN Ret(dh, -1) ELSE Ret(Append(dh, dd), 0)

\* A variant that does not ask whether any `Values' were given.
csnmp_config_add_data_novalues(dh, ci) ==
  IF ~OneOfType(ci, "OCONFIG_TYPE_STRING") THEN Ret(dh, -1)
  ELSE LET r == DataOptions(NewData(ci.values[1].string), ci.children, 1)
           dd == r.obj
           status == IF r.status # 0 THEN r.status
                     ELSE IF dd.type = NULL THEN -1
                     ELSE 0
       IN IF status # 0 THEN Ret(dh, -1) ELSE Ret(Append(dh, dd), 0)

\* the registry after the call, and the call's return value
csnmp_config_add_data(dh, ci) ==
  IF ~OneOfType(ci, "OCONFIG_TYPE_STRING") THEN Ret(dh, -1)
  ELSE LET r == DataOptions(NewData(ci.values[1].string), ci.children, 1)
           dd == r.obj
           status == IF r.status # 0 THEN r.status
                     ELSE IF dd.type = NULL THEN -1
                     ELSE IF dd.values = <<>> THEN -1
                     ELSE 0
       IN IF status # 0 THEN Ret(dh, -1) ELSE Ret(Append(dh, dd), 0)

-----------------------------------------------------------------------------
(* Host definitions: csnmp_config_add_host and its option handlers.         *)

\* memset (hd, 0, ...), version = 2, snmp_sess_init, sess.version = 2c
NewHost(name) ==
  [name |-> name, address |-> NULL, community |-> NULL, version |-> 2,
   sess |-> [version |-> "SNMP_VERSION_2c", peername |-> NULL, community |-> NULL],
   data_list |-> <<>>]

csnmp_config_add_host_address(hd, ci) ==
  IF ~OneOfType(ci, "OCONFIG_TYPE_STRING") THEN Ret(hd, -1)
  ELSE Ret([hd EXCEPT !.address = ci.values[1].string,
                      !.sess.peername = ci.values[1].string], 0)

csnmp_config_add_host_community(hd, ci) ==
  IF ~OneOfType(ci, "OCONFIG_TYPE_STRING") THEN Ret(hd, -1)
  ELSE Ret([hd EXCEPT !.community = ci.values[1].string,
                      !.sess.community = ci.values[1].string], 0)

csnmp_config_add_host_version(hd, ci) ==
  IF ~OneOfType(ci, "OCONFIG_TYPE_NUMBER") THEN Ret(hd, -1)
  ELSE LET version == IntCast(ci.values[1])
       IN IF version # 1 /\ version # 2 THEN Ret(hd, -1)
          ELSE Ret([hd EXCEPT !.version = version,
                              !.sess.version = IF version = 1 THEN "SNMP_VERSION_1"
                                               ELSE "SNMP_VERSION_2c"], 0)

\* one pass of the loop over ci->children
HostOption(hd, option) ==
  IF strcasecmp("Address", option.key) = 0 THEN csnmp_config_add_host_address(hd, option)
  ELSE IF strcasecmp("Community", option.key) = 0 THEN csnmp_config_add_host_community(hd, option)
  ELSE IF strcasecmp("Version", option.key) = 0 THEN csnmp_config_add_host_version(hd, option)
  ELSE Ret(hd, -1)

RECURSIVE HostOptions(_, _, _)
HostOptions(hd, children, i) ==
  IF i > Len(children) THEN Ret(hd, 0)
  ELSE LET r == HostOption(hd, children[i])
       IN IF r.status # 0 THEN r ELSE HostOptions(r.obj, children, i + 1)

csnmp_config_add_host(hh, ci) ==
  IF ~OneOfType(ci, "OCONFIG_TYPE_STRING") THEN Ret(hh, -1)
  ELSE LET r == HostOptions(NewHost(ci.values[1].string), ci.children, 1)
           hd == r.obj
           status == IF r.status # 0 THEN r.status
                     ELSE IF hd.address = NULL THEN -1
                     ELSE IF hd.community = NULL THEN -1
                     ELSE 0
       IN IF status # 0 THEN Ret(hh, -1) ELSE Ret(Append(hh, hd), 0)

-----------------------------------------------------------------------------
(* Collect: csnmp_config_add_collect.  A bound definition is a pointer into *)
(* the data registry: its position in data_head.                            *)

\* for (x = head; x != NULL; x = x->next) if (strcasecmp (name, x->name) == 0) break;
\* 0 stands for the NULL the loop ends with on a miss
\* A variant that goes through the whole list and keeps the last match.
Lookup_last(list, name, i) ==
  LET hits == {j \in i..Len(list) : strcasecmp(name, list[j].name) = 0}
  IN IF hits = {} THEN 0 ELSE CHOOSE j \in hits : \A k \in hits : k <= j

RECURSIVE Lookup(_, _, _)
Lookup(list, name, i) ==
  IF i > Len(list) THEN 0
  ELSE IF strcasecmp(name, list[i].name) = 0 THEN i
  ELSE Lookup(list, name, i + 1)

\* A variant of the loop over the data names that stops at the first unknown name.
RECURSIVE CollectNames_stop(_, _, _, _)
CollectNames_stop(dh, data_list, values, i) ==
  IF i > Len(values) THEN data_list
  ELSE LET data == Lookup(dh, values[i].string, 1)
       IN IF data = 0 THEN data_list
          ELSE CollectNames_stop(dh, Append(data_list, data), values, i + 1)

\* for (i = 1; i < ci->values_num; i++): the host's data_list after the loop
RECURSIVE CollectNames(_, _, _, _)
CollectNames(dh, data_list, values, i) ==
  IF i > Len(values) THEN data_list
  ELSE LET data == Lookup(dh, values[i].string, 1)
       IN IF data = 0 THEN CollectNames(dh, data_list, values, i + 1)
          ELSE CollectNames(dh, Append(data_list, data), values, i + 1)

csnmp_config_add_collect(dh, hh, ci) ==
  IF Len(ci.values) < 2 THEN Ret(hh, -1)
  ELSE IF \E i \in 1..Len(ci.values) : ci.values[i].type # "OCONFIG_TYPE_STRING"
    THEN Ret(hh, -1)
  ELSE LET host == Lookup(hh, ci.values[1].string, 1)
       IN IF host = 0 THEN Ret(hh, -1)
          ELSE Ret([hh EXCEPT ![host].data_list =
                      CollectNames(dh, hh[host].data_list, ci.values, 2)], 0)

-----------------------------------------------------------------------------
(* csnmp_config: one pass of its loop over the children of the plugin block. *)

Regs(dh, hh) == [data_head |-> dh, host_head |-> hh]

ConfigChild(dh, hh, child) ==
  IF strcasecmp("Data", child.key) = 0
    THEN Regs(csnmp_config_add_data(dh, child).obj, hh)
  ELSE IF strcasecmp("Host", child.key) = 0
    THEN Regs(dh, csnmp_config_add_host(hh, child).obj)
  ELSE IF strcasecmp("Collect", child.key) = 0
    THEN Regs(dh, csnmp_config_add_collect(dh, hh, child).obj)
  ELSE Regs(dh, hh)

\* the whole loop, over a given sequence of children
RECURSIVE ConfigChildren(_, _, _, _)
ConfigChildren(dh, hh, children, i) ==
  IF i > Len(children) THEN Regs(dh, hh)
  ELSE LET r == ConfigChild(dh, hh, children[i])
       IN ConfigChildren(r.data_head, r.host_head, children, i + 1)

-----------------------------------------------------------------------------
(* The configuration callbacks as actions.                                  *)

MaxData == 1     \* data definitions registered by the declarations of a run
MaxHosts == 1    \* host definitions registered by the declarations of a run
MaxList == 2     \* entries bound by Collect declarations, over all hosts
MaxOpts == 3     \* options inside one Data or Host block
MaxArgs == 2     \* data names in one Collect declaration

\* the value csnmp_config's call of a handler returns (csnmp_config drops it);
\* 0 for a key that has no handler
ConfigChildStatus(dh, hh, child) ==
  IF strcasecmp("Data", child.key) = 0 THEN csnmp_config_add_data(dh, child).status
  ELSE IF strcasecmp("Host", child.key) = 0 THEN csnmp_config_add_host(hh, child).status
  ELSE IF strcasecmp("Collect", child.key) = 0 THEN csnmp_config_add_collect(dh, hh, child).status
  ELSE 0

DataKeys == {"type", "table", "instance", "values"}
HostKeys == {"address", "community", "version"}
TopKeys == {"data", "host", "collect"}

\* what is remembered of a processed child: its key and values, the status of
\* its handler, whether its block holds an option the block does not know,
\* whether its block holds every required option in a well-formed shape,
\* whether it is a Data block lacking a Type or Values option, and the Version
\* options of a Host block
HasUnknown(child) ==
  LET keys == IF Fold(child.key) = "data" THEN DataKeys
              ELSE IF Fold(child.key) = "host" THEN HostKeys ELSE {}
  IN Fold(child.key) \in {"data", "host"}
     /\ \E i \in 1..Len(child.children) : Fold(child.children[i].key) \notin keys

GoodOption(opt) ==
  CASE Fold(opt.key) \in {"type", "address", "community"} -> OneOfType(opt, "OCONFIG_TYPE_STRING")
    [] Fold(opt.key) = "values" ->
         /\ Len(opt.values) >= 1
         /\ \A i \in 1..Len(opt.values) :
              opt.values[i].type = "OCONFIG_TYPE_STRING" /\ OidOk(opt.values[i].string)
    [] OTHER -> FALSE

HasRequired(child) ==
  LET need == IF Fold(child.key) = "data" THEN {"type", "values"}
              ELSE IF Fold(child.key) = "host" THEN {"address", "community"} ELSE {}
  IN /\ OneOfType(child, "OCONFIG_TYPE_STRING")
     /\ \A k \in need : \E i \in 1..Len(child.children) :
          Fold(child.children[i].key) = k /\ GoodOption(child.children[i])

\* a Data block with no Type option or with no Values option
LacksTypeOrValues(child) ==
  /\ Fold(child.key) = "data"
  /\ \E k \in {"type", "values"} :
       \A i \in 1..Len(child.children) : Fold(child.children[i].key) # k

\* the Version options of a Host block
VersionsGiven(child) ==
  IF Fold(child.key) = "host"
    THEN SelectSeq(child.children, LAMBDA o : Fold(o.key) = "version")
    ELSE <<>>

NoChild ==
  [key |-> "", values |-> <<>>, versions |-> <<>>, status |-> 0, unknown |-> FALSE,
   required |-> FALSE, lacks |-> FALSE]
Seen(dh, hh, child) ==
  [key |-> child.key, values |-> child.values, versions |-> VersionsGiven(child),
   status |-> ConfigChildStatus(dh, hh, child),
   unknown |-> HasUnknown(child), required |-> HasRequired(child),
   lacks |-> LacksTypeOrValues(child)]

\* A variant without the static flag: init_snmp at every call.
call_snmp_init_always ==
  /\ init_calls' = init_calls + 1
  /\ have_init' = 1

call_snmp_init_once ==
  /\ init_calls' = IF have_init = 0 THEN init_calls + 1 ELSE init_calls
  /\ have_init' = 1

\* one more call of a callback the daemon registered (module_register)
Called == calls' = IF calls = "none" THEN "one" ELSE "more"

CsnmpConfigCall ==
  /\ cfg_pc = "idle"
  /\ Called
  /\ call_snmp_init_once
  /\ cfg_pc' = "children"
  /\ UNCHANGED <<lp64, cv_vars, reg_vars, cfg_ret, last, rd_vars>>

RECURSIVE BoundEntries(_, _)
BoundEntries(hh, h) ==
  IF h > Len(hh) THEN 0 ELSE Len(hh[h].data_list) + BoundEntries(hh, h + 1)

\* the bounds of the model: a registry grows to no more than its bound
WithinBounds(r) ==
  /\ IF Len(r.data_head) > Len(data_head) THEN Len(r.data_head) <= MaxData ELSE TRUE
  /\ IF Len(r.host_head) > Len(host_head) THEN Len(r.host_head) <= MaxHosts ELSE TRUE
  /\ IF r.host_head # host_head THEN BoundEntries(r.host_head, 1) <= MaxList ELSE TRUE

CsnmpConfigChild(child) ==
  /\ cfg_pc = "children"
  /\ LET r == ConfigChild(data_head, host_head, child)
     IN /\ WithinBounds(r)
        /\ data_head' = r.data_head
        /\ host_head' = r.host_head
  /\ last' = Seen(data_head, host_head, child)
  /\ UNCHANGED <<lp64, cv_vars, have_init, init_calls, calls, cfg_pc, cfg_ret, rd_vars>>

CsnmpConfigReturn ==
  /\ cfg_pc = "children"
  /\ cfg_pc' = "idle"
  /\ cfg_ret' = <<0>>
  /\ UNCHANGED <<lp64, cv_vars, reg_vars, have_init, init_calls, calls, last, rd_vars>>

CsnmpInit ==
  /\ cfg_pc = "idle"
  /\ Called
  /\ call_snmp_init_once
  /\ UNCHANGED <<lp64, cv_vars, reg_vars, cfg_pc, cfg_ret, last, rd_vars>>

-----------------------------------------------------------------------------
(* The declarations the configuration is drawn from.                        *)

InjSeqs(S, n) ==
  UNION {{f \in [1..k -> S] : \A i, j \in 1..k : i # j => f[i] # f[j]} : k \in 0..n}
SeqsUpTo(S, lo, n) == UNION {[1..k -> S] : k \in lo..n}

DataOptionSet ==
  {Opt("Type", <<Str("if_octets")>>), Opt("Values", <<Str("1.3.6.1.1"), Str("1.3.6.1.2")>>),
   Opt("Values", <<Str("1.3.6.1.1")>>), Opt("Interval", <<Num(10)>>)}
HostOptionSet ==
  {Opt("Address", <<Str("10.0.0.1")>>), Opt("Community", <<Str("public")>>),
   Opt("Version", <<Num(1)>>), Opt("Interval", <<Num(10)>>)}

DataDecls == {Item("Data", <<Str("d1")>>, cs) : cs \in InjSeqs(DataOptionSet, MaxOpts)}
HostDecls == {Item("Host", <<Str("h1")>>, cs) : cs \in InjSeqs(HostOptionSet, MaxOpts)}
OtherDecls ==
  {Item("Interval", <<Num(10)>>, <<>>), Item("Data", <<>>, <<Opt("Type", <<Str("if_octets")>>)>>),
   Item("Host", <<Num(1)>>, <<>>)}

InitCoerceIdle == cv_vb = <<>> /\ cv_type = <<>> /\ cv_ret = <<>>
OvIdle == [pc |-> "idle", host |-> 0, i |-> 0]
InitRd ==
  /\ rd_pc = "idle" /\ rd_host = 0 /\ rd_i = 0 /\ rd_ret = <<>>
  /\ sessions = <<>> /\ res = <<>> /\ vl = <<>> /\ trace = <<>>
  /\ ov = OvIdle
InitCfg ==
  /\ have_init = 0 /\ init_calls = 0 /\ calls = "none"
  /\ cfg_pc = "idle" /\ cfg_ret = <<>> /\ last = NoChild

\* after the call of csnmp_config that built the registries: init_snmp has
\* been called, and no child has been observed yet
InitCfgDone ==
  /\ have_init = 1 /\ init_calls = 1 /\ calls = "one"
  /\ cfg_pc = "idle" /\ cfg_ret = <<0>> /\ last = NoChild

\* (the width of long is not read by the configuration code)
InitDecl ==
  /\ lp64 = TRUE
  /\ InitCoerceIdle
  /\ data_head = <<>> /\ host_head = <<>>
  /\ InitCfg
  /\ InitRd

NextDecl ==
  \/ CsnmpConfigCall
  \/ \E child \in DataDecls \cup HostDecls \cup OtherDecls : CsnmpConfigChild(child)
  \/ CsnmpConfigReturn
  \/ CsnmpInit

SpecDecl == InitDecl /\ [][NextDecl]_vars

-----------------------------------------------------------------------------
(* Collect declarations over registries built by earlier declarations.      *)

GoodData(name, type, oids) ==
  Item("Data", <<Str(name)>>,
       <<Opt("Type", <<Str(type)>>), Opt("Values", [i \in 1..Len(oids) |-> Str(oids[i])])>>)
GoodHost(name) ==
  Item("Host", <<Str(name)>>,
       <<Opt("Address", <<Str("10.0.0.1")>>), Opt("Community", <<Str("public")>>)>>)

\* the registries csnmp_config leaves after a given plugin block
Configured(children) == ConfigChildren(<<>>, <<>>, children, 1)

CollectSeeds ==
  {<<>>,
   <<GoodData("d1", "if_octets", <<"1.3.6.1.1", "1.3.6.1.2">>),
     GoodData("d2", "temperature", <<"1.3.6.1.9">>), GoodHost("h1"), GoodHost("h2")>>}

CollectHostNames == {"h1", "h2", "nosuch"}
CollectDataNames == {"d1", "d2", "nosuch"}
CollectDecls ==
  {Item("Collect", <<Str(h)>> \o [i \in 1..Len(ds) |-> Str(ds[i])], <<>>) :
     h \in CollectHostNames, ds \in SeqsUpTo(CollectDataNames, 0, MaxArgs)}
  \cup {Item("Collect", <<Str("h1"), Str("d1"), Num(5)>>, <<>>)}

InitCollect ==
  /\ lp64 = TRUE
  /\ InitCoerceIdle
  /\ \E seed \in CollectSeeds :
       /\ data_head = Configured(seed).data_head
       /\ host_head = Configured(seed).host_head
  /\ InitCfgDone
  /\ InitRd

NextCollect ==
  \/ CsnmpConfigCall
  \/ \E child \in CollectDecls : CsnmpConfigChild(child)
  \/ CsnmpConfigReturn

SpecCollect == InitCollect /\ [][NextCollect]_vars

-----------------------------------------------------------------------------
(* Properties of the configuration binder.                                  *)

ChildStep == cfg_pc = "children" /\ cfg_pc' = "children"
AllStrings(values) == \A i \in 1..Len(values) : values[i].type = "OCONFIG_TYPE_STRING"

\* the first entry of a registry whose name is `name' up to case, 0 when none
FirstNamed(list, name) ==
  IF \E j \in 1..Len(list) : Fold(list[j].name) = Fold(name)
    THEN CHOOSE j \in 1..Len(list) :
           /\ Fold(list[j].name) = Fold(name)
           /\ \A k \in 1..(j - 1) : Fold(list[k].name) # Fold(name)
    ELSE 0

\* the definitions the data names of a Collect declaration resolve to, in order
ResolvedNames(dh, values) ==
  LET idx == [i \in 1..(Len(values) - 1) |-> FirstNamed(dh, values[i + 1].string)]
  IN SelectSeq(idx, LAMBDA j : j # 0)

C6_AsClaimed ==
  \A i \in 1..Len(data_head) :
    data_head[i].values_len = Len(plugin_get_ds(data_head[i].type))

\* C6 as amended: every registered data definition has a metric type and a
\* non-empty list of parsed OIDs, and values_len is the length of that list; the
\* slot count of the metric type is not consulted when a definition is registered.
C6_ValuesAsGiven ==
  \A i \in 1..Len(data_head) :
    /\ data_head[i].type # NULL
    /\ data_head[i].values_len >= 1
    /\ data_head[i].values_len = Len(data_head[i].values)
    /\ \A k \in 1..Len(data_head[i].values) : data_head[i].values[k] # <<>>

\* a Data declaration whose Values count differs from the slot count of its
\* metric type has been registered
C6_Witness ==
  /\ Fold(last.key) = "data" /\ last.status = 0
  /\ \E i \in 1..Len(data_head) :
       /\ plugin_get_ds(data_head[i].type) # <<>>
       /\ data_head[i].values_len # Len(plugin_get_ds(data_head[i].type))

\* C10 as claimed: a Data or Host block that holds an unknown key in addition to
\* all its required options is still registered.
C10_AsClaimed ==
  (Fold(last.key) \in {"data", "host"} /\ last.unknown /\ last.required) => last.status = 0

\* C10 as amended: a key csnmp_config does not know is ignored (no registry
\* changes, no handler fails) and csnmp_config returns 0; a Data or Host block
\* that holds a key its option loop does not know fails as a whole and registers
\* nothing, whatever else it holds.
C10_UnknownKeys ==
  [][/\ ChildStep =>
          /\ Fold(last'.key) \notin TopKeys => (UNCHANGED reg_vars /\ last'.status = 0)
          /\ last'.unknown => (UNCHANGED reg_vars /\ last'.status = -1)
     /\ cfg_ret' \in {<<>>, <<0>>}]_vars

\* a block holding an unknown key and all its required options has been refused
C10_Witness ==
  /\ Fold(last.key) \in {"data", "host"} /\ last.unknown /\ last.required
  /\ last.status = -1

-----------------------------------------------------------------------------
(* Value coercion on its own: csnmp_value_list_to_value applied to one      *)
(* variable and one slot kind.                                              *)

Word(n) == NatToBits(n, 32)
WireWords == {Word(0), Word(42), Word(2147483647), <<1>> \o Rep(0, 31), Rep(1, 32)}

\* struct variable_list: name, type and the val member the type selects
IntVar(name, type, w) ==
  [name |-> name, type |-> type, integer |-> w, high |-> Word(0), low |-> Word(0)]
Counter64Var(name, h, l) ==
  [name |-> name, type |-> "ASN_COUNTER64", integer |-> Word(0), high |-> h, low |-> l]
OtherVar(name, type) ==
  [name |-> name, type |-> type, integer |-> Word(0), high |-> Word(0), low |-> Word(0)]

CoerceVars ==
  {IntVar(<<1, 3, 6, 1, 1>>, t, w) :
     t \in {"ASN_INTEGER", "ASN_UINTEGER", "ASN_COUNTER", "ASN_GAUGE"}, w \in WireWords}
  \cup {Counter64Var(<<1, 3, 6, 1, 1>>, h, l) : h \in WireWords, l \in WireWords}
  \cup {OtherVar(<<1, 3, 6, 1, 1>>, t) : t \in AsnOther}

InitCoerce ==
  /\ lp64 \in BOOLEAN
  /\ cv_vb \in CoerceVars /\ cv_type \in DsTypes /\ cv_ret = <<>>
  /\ data_head = <<>> /\ host_head = <<>>
  /\ InitCfg
  /\ InitRd

CoerceCall ==
  /\ cv_ret = <<>>
  /\ cv_ret' = <<csnmp_value_list_to_value(cv_vb, cv_type)>>
  /\ UNCHANGED <<lp64, cv_vb, cv_type, reg_vars, cfg_vars, rd_vars>>

NextCoerce == CoerceCall

SpecCoerce == InitCoerce /\ [][NextCoerce]_vars

\* C8: for a counter slot the result is the counter member, never NaN, and is 0
\* when the wire type is none of integer, unsigned integer, 32-bit counter,
\* gauge, 64-bit counter; for a gauge slot the result is NaN exactly when the
\* wire type is none of those five.
C8_Coercion ==
  cv_ret # <<>> =>
    /\ cv_type = "DS_TYPE_COUNTER" =>
         /\ IsCounter(cv_ret[1]) /\ ~IsNaN(cv_ret[1])
         /\ cv_vb.type \notin AsnRecognized => cv_ret[1] = Counter(Zero64)
    /\ cv_type = "DS_TYPE_GAUGE" =>
         /\ IsGauge(cv_ret[1])
         /\ IsNaN(cv_ret[1]) <=> cv_vb.type \notin AsnRecognized

\* a variable of an unrecognized wire type has been coerced for a gauge slot
C8_Witness ==
  /\ cv_ret # <<>> /\ cv_type = "DS_TYPE_GAUGE" /\ cv_vb.type = "ASN_OCTET_STR"
  /\ IsNaN(cv_ret[1])

-----------------------------------------------------------------------------
(* The poll cycle: csnmp_read, csnmp_read_host, csnmp_read_value and         *)
(* csnmp_read_table.  snmp_open, snmp_pdu_create and snmp_synch_response    *)
(* answer as the environment chooses.                                       *)

MaxVars == 2     \* variables in one response

Ev(e, h, pos) == [e |-> e, host |-> h, pos |-> pos, oids |-> <<>>]

\* A variant of the request that asks for the first OID of the definition only.
Req_first(h, pos, oids) ==
  [e |-> "request", host |-> h, pos |-> pos, oids |-> SubSeq(oids, 1, 1)]

\* snmp_add_null_var for each of data->values, then snmp_synch_response
Req(h, pos, oids) == [e |-> "request", host |-> h, pos |-> pos, oids |-> oids]

\* vl.values[i] before the response is looked at
Absent(type) == IF type = "DS_TYPE_COUNTER" THEN Counter(Zero64) ELSE NAN

\* A variant that takes the k-th variable of the response for the k-th slot.
RECURSIVE MatchVars_positional(_, _, _, _, _)
MatchVars_positional(values, data, ds, variables, k) ==
  IF k > Len(variables) THEN values
  ELSE MatchVars_positional(
         [i \in 1..Len(values) |->
            IF i = k THEN csnmp_value_list_to_value(variables[k], ds[i]) ELSE values[i]],
         data, ds, variables, k + 1)

\* for (vb = res->variables; vb != NULL; vb = vb->next_variable)
\*   for (i = 0; i < data->values_len; i++) if (snmp_oid_compare (...) == 0) vl.values[i] = ...
RECURSIVE MatchVars(_, _, _, _, _)
MatchVars(values, data, ds, variables, k) ==
  IF k > Len(variables) THEN values
  ELSE MatchVars(
         [i \in 1..Len(values) |->
            IF snmp_oid_compare(data.values[i], variables[k].name) = 0
              THEN csnmp_value_list_to_value(variables[k], ds[i])
              ELSE values[i]],
         data, ds, variables, k + 1)

\* A variant that leaves every slot NaN before the response is looked at.
InitialValues_nan(ds) == [i \in 1..Len(ds) |-> NAN]

\* for (i = 0; i < vl.values_len; i++) vl.values[i] = 0 or NAN
InitialValues(ds) == [i \in 1..Len(ds) |-> Absent(ds[i])]

\* data->instance.string, whatever member of the union was stored
TypeInstance(data) ==
  IF data.instance.form = "oid" THEN "<oid bytes>" ELSE data.instance.string

\* the value list csnmp_read_value hands to plugin_dispatch_values
ValueList(host, data, ds, variables) ==
  [values |-> MatchVars(InitialValues(ds), data, ds, variables, 1),
   values_len |-> Len(ds), host |-> host.name, plugin |-> "snmp",
   type_instance |-> TypeInstance(data), type |-> data.type]

CurHost == host_head[rd_host]
CurData == data_head[CurHost.data_list[rd_i]]
InLoop == rd_pc = "loop" /\ rd_i <= Len(CurHost.data_list)

\* for (host = host_head; host != NULL; host = host->next): on to the next
\* host whatever csnmp_read_host returned, or return (0) after the last
NextHost(tr) ==
  /\ IF rd_host < Len(host_head)
       THEN rd_pc' = "host" /\ rd_host' = rd_host + 1 /\ rd_ret' = rd_ret
       ELSE rd_pc' = "idle" /\ rd_host' = 0 /\ rd_ret' = <<0>>
  /\ rd_i' = 0 /\ trace' = tr

CsnmpRead ==
  /\ rd_pc = "idle" /\ cfg_pc = "idle"
  /\ IF host_head = <<>>
       THEN /\ trace' = <<Ev("nohosts", 0, 0)>>
            /\ rd_ret' = <<-1>>
            /\ UNCHANGED <<rd_pc, rd_host>>
       ELSE /\ trace' = <<>>
            /\ rd_ret' = <<>>
            /\ rd_pc' = "host" /\ rd_host' = 1
  /\ UNCHANGED <<lp64, cv_vars, reg_vars, cfg_vars, ov, rd_i, sessions, res, vl>>

\* csnmp_read_host up to its loop: snmp_open succeeds
ReadHostOpen ==
  /\ rd_pc = "host"
  /\ sessions' = Append(sessions, rd_host)
  /\ trace' = Append(trace, Ev("open", rd_host, 0))
  /\ rd_pc' = "loop" /\ rd_i' = 1
  /\ UNCHANGED <<lp64, cv_vars, reg_vars, cfg_vars, ov, rd_host, rd_ret, res, vl>>

\* A variant in which a failed snmp_open ends the whole cycle.
ReadHostOpenFails_abort ==
  /\ rd_pc = "host"
  /\ trace' = Append(trace, Ev("openfail", rd_host, 0))
  /\ rd_pc' = "idle" /\ rd_host' = 0 /\ rd_i' = 0 /\ rd_ret' = <<0>>
  /\ UNCHANGED <<lp64, cv_vars, reg_vars, cfg_vars, ov, sessions, res, vl>>

\* csnmp_read_host: snmp_open returns NULL, return (-1)
ReadHostOpenFails ==
  /\ rd_pc = "host"
  /\ NextHost(Append(trace, Ev("openfail", rd_host, 0)))
  /\ UNCHANGED <<lp64, cv_vars, reg_vars, cfg_vars, ov, sessions, res, vl>>

\* csnmp_read_table
ReadTable ==
  /\ InLoop /\ CurData.is_table # 0
  /\ trace' = Append(trace, Ev("table", rd_host, rd_i))
  /\ rd_i' = rd_i + 1
  /\ UNCHANGED <<lp64, cv_vars, reg_vars, cfg_vars, ov, rd_pc, rd_host, rd_ret, sessions, res, vl>>

\* A variant in which an early return of csnmp_read_value ends the host's loop.
ReadValueEarly_abort(why) ==
  /\ InLoop /\ CurData.is_table = 0
  /\ LET ds == plugin_get_ds(CurData.type)
     IN IF ds = <<>> THEN why = "nods"
        ELSE IF Len(ds) # CurData.values_len THEN why = "mismatch"
        ELSE why \in {"nomem", "pdufail"}
  /\ trace' = Append(trace, Ev(why, rd_host, rd_i))
  /\ rd_i' = Len(CurHost.data_list) + 1
  /\ UNCHANGED <<lp64, cv_vars, reg_vars, cfg_vars, ov, rd_pc, rd_host, rd_ret, sessions, res, vl>>

\* csnmp_read_value returns before a request is sent: the data set is not
\* defined, its ds_num is not values_len, malloc or snmp_pdu_create fail
ReadValueEarly(why) ==
  /\ InLoop /\ CurData.is_table = 0
  /\ LET ds == plugin_get_ds(CurData.type)
     IN IF ds = <<>> THEN why = "nods"
        ELSE IF Len(ds) # CurData.values_len THEN why = "mismatch"
        ELSE why \in {"nomem", "pdufail"}
  /\ trace' = Append(trace, Ev(why, rd_host, rd_i))
  /\ rd_i' = rd_i + 1
  /\ UNCHANGED <<lp64, cv_vars, reg_vars, cfg_vars, ov, rd_pc, rd_host, rd_ret, sessions, res, vl>>

Usable(data) ==
  /\ plugin_get_ds(data.type) # <<>>
  /\ Len(plugin_get_ds(data.type)) = data.values_len

\* A variant in which a failed request ends the host's loop.
ReadValueTransportFails_abort ==
  /\ InLoop /\ CurData.is_table = 0 /\ Usable(CurData)
  /\ trace' = trace \o <<Req(rd_host, rd_i, CurData.values), Ev("reqfail", rd_host, rd_i)>>
  /\ rd_i' = Len(CurHost.data_list) + 1
  /\ UNCHANGED <<lp64, cv_vars, reg_vars, cfg_vars, ov, rd_pc, rd_host, rd_ret, sessions, res, vl>>

\* csnmp_read_value: snmp_synch_response does not return STAT_SUCCESS
ReadValueTransportFails ==
  /\ InLoop /\ CurData.is_table = 0 /\ Usable(CurData)
  /\ trace' = trace \o <<Req(rd_host, rd_i, CurData.values), Ev("reqfail", rd_host, rd_i)>>
  /\ rd_i' = rd_i + 1
  /\ UNCHANGED <<lp64, cv_vars, reg_vars, cfg_vars, ov, rd_pc, rd_host, rd_ret, sessions, res, vl>>

\* csnmp_read_value: the response has come and its variables are matched
ReadValueResponse(variables) ==
  /\ InLoop /\ CurData.is_table = 0 /\ Usable(CurData)
  /\ trace' = Append(trace, Req(rd_host, rd_i, CurData.values))
  /\ res' = variables
  /\ vl' = <<ValueList(CurHost, CurData, plugin_get_ds(CurData.type), variables)>>
  /\ rd_pc' = "dispatch"
  /\ UNCHANGED <<lp64, cv_vars, reg_vars, cfg_vars, ov, rd_host, rd_i, rd_ret, sessions>>

\* A variant in which the loop of csnmp_read_host starts over after a sample
\* for a later entry.
ReadValueDispatch_restart ==
  /\ rd_pc = "dispatch"
  /\ trace' = Append(trace, Ev("dispatch", rd_host, rd_i))
  /\ res' = <<>> /\ vl' = <<>>
  /\ rd_pc' = "loop" /\ rd_i' = IF rd_i > 1 THEN 1 ELSE rd_i + 1
  /\ UNCHANGED <<lp64, cv_vars, reg_vars, cfg_vars, ov, rd_host, rd_ret, sessions>>

\* csnmp_read_value: snmp_free_pdu, plugin_dispatch_values, return (0)
ReadValueDispatch ==
  /\ rd_pc = "dispatch"
  /\ trace' = Append(trace, Ev("dispatch", rd_host, rd_i))
  /\ res' = <<>> /\ vl' = <<>>
  /\ rd_pc' = "loop" /\ rd_i' = rd_i + 1
  /\ UNCHANGED <<lp64, cv_vars, reg_vars, cfg_vars, ov, rd_host, rd_ret, sessions>>

\* snmp_close (sess_ptr): one session of host x is closed
Without(seq, x) ==
  IF \A k \in DOMAIN seq : seq[k] # x THEN seq
  ELSE LET k == CHOOSE k \in DOMAIN seq :
                  seq[k] = x /\ \A j \in 1..(k - 1) : seq[j] # x
       IN SubSeq(seq, 1, k - 1) \o SubSeq(seq, k + 1, Len(seq))

\* A variant that returns from csnmp_read_host without snmp_close.
ReadHostClose_leak ==
  /\ rd_pc = "loop" /\ rd_i > Len(CurHost.data_list)
  /\ NextHost(trace)
  /\ UNCHANGED <<lp64, cv_vars, reg_vars, cfg_vars, ov, sessions, res, vl>>

\* csnmp_read_host after its loop: snmp_close, return (0)
ReadHostClose ==
  /\ rd_pc = "loop" /\ rd_i > Len(CurHost.data_list)
  /\ sessions' = Without(sessions, rd_host)
  /\ NextHost(Append(trace, Ev("close", rd_host, 0)))
  /\ UNCHANGED <<lp64, cv_vars, reg_vars, cfg_vars, ov, res, vl>>

-----------------------------------------------------------------------------
(* The responses and the configurations the poll cycle is run on.           *)

Oid1 == <<1, 3, 6, 1, 1>>
Oid2 == <<1, 3, 6, 1, 2>>
Oid9 == <<1, 3, 6, 1, 9>>
ResponseVars ==
  {IntVar(Oid1, "ASN_INTEGER", Word(42)), IntVar(Oid1, "ASN_INTEGER", Rep(1, 32)),
   IntVar(Oid2, "ASN_GAUGE", Word(42)), OtherVar(Oid2, "ASN_OCTET_STR"),
   IntVar(Oid9, "ASN_COUNTER", Word(42))}
Responses == SeqsUpTo(ResponseVars, 0, MaxVars)

Collect(names) == Item("Collect", [i \in 1..Len(names) |-> Str(names[i])], <<>>)
TableData(name, type, oids) ==
  Item("Data", <<Str(name)>>,
       <<Opt("Type", <<Str(type)>>), Opt("Table", <<Bool(TRUE)>>),
         Opt("Values", [i \in 1..Len(oids) |-> Str(oids[i])])>>)

ReadSeeds ==
  {<<>>,
   <<GoodData("dm", "snmp_mixed", <<"1.3.6.1.1", "1.3.6.1.2">>),
     GoodHost("h1"), GoodHost("h2"),
     Collect(<<"h1", "dm", "dm">>)>>,
   <<GoodData("dm", "snmp_mixed", <<"1.3.6.1.2", "1.3.6.1.1">>),
     GoodData("dx", "if_octets", <<"1.3.6.1.1">>),
     GoodData("du", "nosuch", <<"1.3.6.1.1">>),
     TableData("dt", "temperature", <<"1.3.6.1.9">>),
     GoodHost("h1"), GoodHost("h2"), GoodHost("h3"),
     Collect(<<"h1", "dx", "dm">>), Collect(<<"h2", "dt", "du">>),
     Collect(<<"h3", "dm", "dm">>)>>}

InitRead ==
  /\ lp64 \in BOOLEAN
  /\ InitCoerceIdle
  /\ \E seed \in ReadSeeds :
       /\ data_head = Configured(seed).data_head
       /\ host_head = Configured(seed).host_head
  /\ InitCfgDone
  /\ InitRd

NextRead ==
  \/ CsnmpRead
  \/ ReadHostOpen
  \/ ReadHostOpenFails
  \/ ReadTable
  \/ \E why \in {"nods", "mismatch", "nomem", "pdufail"} : ReadValueEarly(why)
  \/ ReadValueTransportFails
  \/ \E variables \in Responses : ReadValueResponse(variables)
  \/ ReadValueDispatch
  \/ ReadHostClose

SpecRead == InitRead /\ [][NextRead]_vars

-----------------------------------------------------------------------------
(* Properties of the poll cycle.  trace holds the events of the cycle that  *)
(* is running or has just ended.                                            *)

Events(e) == {k \in DOMAIN trace : trace[k].e = e}
HostEvents(h) == {k \in DOMAIN trace : trace[k].host = h}
At(h, pos) == {k \in DOMAIN trace : trace[k].host = h /\ trace[k].pos = pos}
CycleDone == rd_pc = "idle" /\ rd_ret = <<0>>
Polls == SelectSeq(trace, LAMBDA ev : ev.e \in {"open", "openfail"})
EntryEvents == {"table", "nods", "mismatch", "nomem", "pdufail", "request"}
MaxOf(S) == CHOOSE x \in S : \A y \in S : y <= x

\* the data set of the sample held in vl
SampleDs == plugin_get_ds(CurData.type)
Matching(data, variables, i) ==
  {k \in DOMAIN variables : snmp_oid_compare(data.values[i], variables[k].name) = 0}
Matched(data, variables) ==
  SelectSeq(variables, LAMBDA vb : \E i \in DOMAIN data.values :
                                     snmp_oid_compare(data.values[i], vb.name) = 0)

\* C1: in a cycle the hosts are polled once each in registration order; a
\* host whose snmp_open fails has no other event in the cycle (no request, no
\* sample); when the cycle has ended every registered host has been polled,
\* every entry of every opened host has been visited, and a dispatched sample
\* is determined by its host, its definition and the response alone.
C1_OpenFailure ==
  /\ \A j \in DOMAIN Polls : Polls[j].host = j
  /\ \A k \in Events("openfail") : HostEvents(trace[k].host) = {k}
  /\ rd_pc = "dispatch" => vl = <<ValueList(CurHost, CurData, SampleDs, res)>>
  /\ CycleDone =>
       /\ Len(Polls) = Len(host_head)
       /\ \A k \in Events("open") :
            \A pos \in DOMAIN host_head[trace[k].host].data_list :
              \E j \in At(trace[k].host, pos) : trace[j].e \in EntryEvents

C1_Witness ==
  /\ CycleDone
  /\ \E k \in Events("openfail") : \E j \in Events("dispatch") :
       trace[k].host < trace[j].host

Perms(n) == {p \in [1..n -> 1..n] : \A a, b \in 1..n : p[a] = p[b] => a = b}
Permuted(seq, p) == [k \in DOMAIN seq |-> seq[p[k]]]
NoConflict(variables) ==
  \A j, k \in DOMAIN variables :
    variables[j].name = variables[k].name => variables[j] = variables[k]
SameInAnyOrder ==
  \A p \in Perms(Len(res)) :
    MatchVars(InitialValues(SampleDs), CurData, SampleDs, Permuted(res, p), 1)
      = vl[1].values

\* C2 as stated: whatever the response, every order of its variables gives
\* the dispatched values.
C2_AsClaimed == rd_pc = "dispatch" => SameInAnyOrder

\* C2: when the variables of the response that carry the same OID are equal,
\* every order of the variables gives the dispatched values.
C2_OrderIndependent == (rd_pc = "dispatch" /\ NoConflict(res)) => SameInAnyOrder

C2_Witness ==
  /\ rd_pc = "dispatch"
  /\ Len(res) = 2 /\ res[1].name # res[2].name
  /\ Matched(CurData, res) = res
  /\ CurData.values[1] = res[2].name

\* C3: a sample is dispatched for every answered request; in it a slot whose
\* OID is in the response holds the coercion of the last variable carrying
\* that OID, a slot whose OID is not in the response holds 0 (counter) or NaN
\* (gauge), and the variables matching no slot make no difference.
C3_PartialResponse ==
  [][rd_pc = "dispatch" =>
       /\ \A i \in DOMAIN vl[1].values :
            LET m == Matching(CurData, res, i)
            IN vl[1].values[i] =
                 IF m = {} THEN Absent(SampleDs[i])
                 ELSE csnmp_value_list_to_value(res[MaxOf(m)], SampleDs[i])
       /\ vl[1].values = MatchVars(InitialValues(SampleDs), CurData, SampleDs,
                                   Matched(CurData, res), 1)
       /\ vl[1].values_len = CurData.values_len
       /\ trace' = Append(trace, Ev("dispatch", rd_host, rd_i))]_vars

C3_Witness ==
  /\ rd_pc = "dispatch"
  /\ Matched(CurData, res) # res
  /\ \E i, j \in DOMAIN vl[1].values :
       /\ Matching(CurData, res, i) # {}
       /\ Matching(CurData, res, j) = {}
       /\ SampleDs[j] = "DS_TYPE_COUNTER" /\ vl[1].values[j] = Counter(Zero64)

Count(seq, x) == Cardinality({k \in DOMAIN seq : seq[k] = x})

\* C5: a host's session is opened at most once in a cycle and closed at most
\* once, after it was opened and after every entry of the host; the sessions
\* open are exactly those opened and not yet closed, which is the session of
\* the host being polled at most; no session is open when csnmp_read returns.
C5_SessionsClosed ==
  /\ rd_pc = "idle" => sessions = <<>>
  /\ sessions # <<>> => rd_pc \in {"loop", "dispatch"} /\ sessions = <<rd_host>>
  /\ \A h \in DOMAIN host_head :
       LET opens == Events("open") \cap HostEvents(h)
           closes == Events("close") \cap HostEvents(h)
       IN /\ Cardinality(opens) <= 1
          /\ Cardinality(closes) <= Cardinality(opens)
          /\ Count(sessions, h) = Cardinality(opens) - Cardinality(closes)
          /\ \A c \in closes : \A k \in HostEvents(h) : k <= c
          /\ rd_pc = "idle" => Cardinality(closes) = Cardinality(opens)

C5_Witness ==
  /\ CycleDone /\ sessions = <<>>
  /\ Cardinality(Events("close")) = 3
  /\ \A e \in {"mismatch", "nods", "table", "reqfail", "pdufail", "dispatch"} :
       Events(e) # {}

\* C7 as stated: a cycle run with no host registered opens no session, sends
\* no request, dispatches nothing and does not return a failure.
C7_AsClaimed ==
  (host_head = <<>> /\ rd_ret # <<>>) =>
    /\ sessions = <<>>
    /\ Events("open") \cup Events("request") \cup Events("dispatch") = {}
    /\ rd_ret = <<0>>

\* C9: a request that fails at the transport is followed by no sample for its
\* entry; the loop goes on to the next entry with the session still open and
\* never reopened, and the session is closed only after every later entry of
\* the host has been visited.
C9_TransportFailure ==
  \A k \in Events("reqfail") :
    LET h == trace[k].host
        p == trace[k].pos
        list == host_head[h].data_list
    IN /\ k > 1 /\ trace[k - 1] = Req(h, p, data_head[list[p]].values)
       /\ \A j \in At(h, p) : trace[j].e # "dispatch"
       /\ \A j \in Events("open") \cap HostEvents(h) : j < k
       /\ k = Len(trace) =>
            rd_pc = "loop" /\ rd_host = h /\ rd_i = p + 1 /\ sessions = <<h>>
       /\ k < Len(trace) =>
            IF p < Len(list)
              THEN trace[k + 1].host = h /\ trace[k + 1].pos = p + 1
                   /\ trace[k + 1].e \in EntryEvents
              ELSE trace[k + 1] = Ev("close", h, 0)
       /\ \A c \in Events("close") \cap HostEvents(h) :
            \A q \in (p + 1)..Len(list) :
              \E j \in At(h, q) : k < j /\ j < c /\ trace[j].e \in EntryEvents

C9_Witness ==
  \E k \in Events("reqfail") : \E j \in Events("dispatch") :
    /\ trace[j].host = trace[k].host /\ trace[j].pos = trace[k].pos + 1
    /\ \E c \in Events("close") : trace[c].host = trace[k].host

-----------------------------------------------------------------------------
(* Data declarations that lack a required option, among their siblings.     *)

TypeOpt == Opt("Type", <<Str("if_octets")>>)
ValuesOpt == Opt("Values", <<Str("1.3.6.1.1"), Str("1.3.6.1.2")>>)
TableOpt == Opt("Table", <<Bool(TRUE)>>)

LackingData ==
  {Item("Data", <<Str("d1")>>, cs) :
     cs \in {<<>>, <<TypeOpt>>, <<ValuesOpt>>, <<TypeOpt, TableOpt>>, <<TableOpt, ValuesOpt>>}}
FrameDecls ==
  LackingData
  \cup {GoodData("d1", "if_octets", <<"1.3.6.1.1", "1.3.6.1.2">>),
        GoodData("d1", "temperature", <<"1.3.6.1.9">>), GoodHost("h1"),
        Collect(<<"h1", "d1">>), Collect(<<"h1", "nosuch", "d1">>),
        Item("Interval", <<Num(10)>>, <<>>)}

InitFrame == InitDecl

NextFrame ==
  \/ CsnmpConfigCall
  \/ \E child \in FrameDecls : CsnmpConfigChild(child)
  \/ CsnmpConfigReturn

SpecFrame == InitFrame /\ [][NextFrame]_vars

\* C11: a Data declaration with no Type option or no Values option fails and
\* leaves the data registry and the host registry, every data_list included, as
\* they were; the loop of csnmp_config goes on, and each declaration that can
\* follow has the effect and the status it would have had without it.
C11_RejectedData ==
  [][(cfg_pc = "children" /\ last'.lacks /\ last' # last)
     => /\ last'.status = -1
        /\ UNCHANGED reg_vars
        /\ cfg_pc' = "children"
        /\ \A c \in FrameDecls :
             /\ ConfigChild(data_head', host_head', c) = ConfigChild(data_head, host_head, c)
             /\ ConfigChildStatus(data_head', host_head', c)
                  = ConfigChildStatus(data_head, host_head, c)]_vars

\* a Data declaration lacking an option has been refused after a definition, a
\* host and a binding had been registered
C11_Witness ==
  /\ last.lacks /\ last.status = -1 /\ cfg_pc = "children"
  /\ Len(data_head) = 1
  /\ \E h \in 1..Len(host_head) : host_head[h].data_list # <<>>

-----------------------------------------------------------------------------
(* Coerced values against wire values, as signed magnitudes.                *)

Invert(b) == [i \in 1..Len(b) |-> 1 - b[i]]

\* the integer a variable carries on the wire: an ASN_INTEGER is a 32-bit
\* two's complement number, the other 32-bit types are unsigned, a counter64
\* is high * 2^32 + low
WireValue(vb) ==
  IF vb.type = "ASN_COUNTER64" THEN [neg |-> FALSE, mag |-> Strip(vb.high \o vb.low)]
  ELSE IF vb.type = "ASN_INTEGER" /\ vb.integer[1] = 1
    THEN [neg |-> TRUE, mag |-> Strip(Inc(Invert(vb.integer)))]
  ELSE [neg |-> FALSE, mag |-> Strip(vb.integer)]

\* the number a value_t holds: the counter member is a uint64_t, the gauge
\* member was converted from a uint64_t, so neither is negative
ResultValue(v) ==
  IF IsCounter(v) THEN [neg |-> FALSE, mag |-> Strip(v.counter)]
  ELSE [neg |-> FALSE, mag |-> v.gauge]

\* C12 as stated: for a recognized wire type a counter slot holds the wire
\* value and a gauge slot holds the wire value converted to a double, negative
\* integers included.
C12_AsClaimed ==
  (cv_ret # <<>> /\ cv_vb.type \in AsnRecognized) =>
    LET wire == WireValue(cv_vb)
    IN ResultValue(cv_ret[1]) =
         IF cv_type = "DS_TYPE_COUNTER" THEN wire
         ELSE [neg |-> wire.neg, mag |-> ToDouble(wire.mag)]

-----------------------------------------------------------------------------
(* Requests and samples per entry of a data_list.                           *)

NumAt(e, h, pos) == Cardinality({k \in At(h, pos) : trace[k].e = e})

\* csnmp_read_value has returned for entry pos of host h in this cycle
Returned(h, pos) ==
  \/ Events("close") \cap HostEvents(h) # {}
  \/ rd_host = h /\ rd_pc = "loop" /\ rd_i > pos

\* the entries of the opened hosts that are scalar and whose values_len is
\* the ds_num of their data set
UsableEntries ==
  {hp \in UNION {{<<trace[k].host, pos>> :
                    pos \in DOMAIN host_head[trace[k].host].data_list} :
                 k \in Events("open")} :
     LET d == data_head[host_head[hp[1]].data_list[hp[2]]]
     IN d.is_table = 0 /\ Usable(d)}

EntryData(hp) == data_head[host_head[hp[1]].data_list[hp[2]]]

\* C13 as stated: every such entry, once polled, has had exactly one request
\* with all its OIDs, and exactly one sample when the request was answered.
C13_AsClaimed ==
  \A hp \in UsableEntries :
    Returned(hp[1], hp[2]) =>
      /\ NumAt("request", hp[1], hp[2]) = 1
      /\ NumAt("dispatch", hp[1], hp[2]) = 1 - NumAt("reqfail", hp[1], hp[2])

\* C13: every such entry has at most one request, which carries all the OIDs
\* of its definition in order; once polled it has had exactly one request
\* unless malloc or snmp_pdu_create failed for it, and then none; it has one
\* sample when its request was answered and none otherwise.  Each position of
\* a data_list is counted on its own, so a definition bound twice is requested
\* and dispatched twice.
C13_OneRequest ==
  \A hp \in UsableEntries :
    LET h == hp[1]
        pos == hp[2]
        built == NumAt("nomem", h, pos) + NumAt("pdufail", h, pos) = 0
    IN /\ NumAt("request", h, pos) <= 1
       /\ \A k \in At(h, pos) :
            trace[k].e = "request" => trace[k].oids = EntryData(hp).values
       /\ Returned(h, pos) =>
            /\ NumAt("request", h, pos) = IF built THEN 1 ELSE 0
            /\ NumAt("reqfail", h, pos) <= NumAt("request", h, pos)
            /\ NumAt("dispatch", h, pos)
                 = NumAt("request", h, pos) - NumAt("reqfail", h, pos)

\* a host whose data_list names one definition twice has been polled, both
\* requests were answered, and another entry of the cycle could not be built
C13_Witness ==
  /\ CycleDone
  /\ \E hp \in UsableEntries :
       /\ hp[2] = 1 /\ Len(host_head[hp[1]].data_list) = 2
       /\ host_head[hp[1]].data_list[1] = host_head[hp[1]].data_list[2]
       /\ NumAt("dispatch", hp[1], 1) = 1 /\ NumAt("dispatch", hp[1], 2) = 1
  /\ Events("pdufail") # {}

-----------------------------------------------------------------------------
(* Host declarations and their Version option.                              *)

AddressOpt == Opt("Address", <<Str("10.0.0.1")>>)
CommunityOpt == Opt("Community", <<Str("public")>>)
VersionOpt(v) == Opt("Version", <<v>>)

HostBlocks ==
  {<<AddressOpt, CommunityOpt>>, <<CommunityOpt, AddressOpt>>,
   <<AddressOpt>>, <<CommunityOpt>>, <<>>,
   <<AddressOpt, VersionOpt(Num(1))>>,
   <<AddressOpt, CommunityOpt, VersionOpt(Num(1))>>,
   <<VersionOpt(Num(1)), AddressOpt, CommunityOpt>>,
   <<AddressOpt, CommunityOpt, VersionOpt(Num(2))>>,
   <<AddressOpt, CommunityOpt, VersionOpt(Num(0))>>,
   <<AddressOpt, CommunityOpt, VersionOpt(Num(3))>>,
   <<VersionOpt(Num(3)), AddressOpt, CommunityOpt>>,
   <<AddressOpt, CommunityOpt, VersionOpt(NumFrac(2, 500))>>,
   <<AddressOpt, CommunityOpt, VersionOpt(NumFrac(1, 900))>>,
   <<AddressOpt, CommunityOpt, VersionOpt(Str("2"))>>,
   <<AddressOpt, CommunityOpt, VersionOpt(Num(1)), VersionOpt(Num(2))>>}
VersionDecls ==
  {Item("Host", <<Str(n)>>, b) : n \in {"h1", "h2"}, b \in HostBlocks}

InitHosts == InitDecl

NextHosts ==
  \/ CsnmpConfigCall
  \/ \E child \in VersionDecls : CsnmpConfigChild(child)
  \/ CsnmpConfigReturn

SpecHosts == InitHosts /\ [][NextHosts]_vars

HostsOk(hh) ==
  \A i \in 1..Len(hh) :
    /\ hh[i].address # NULL /\ hh[i].community # NULL
    /\ hh[i].version \in {1, 2}

\* a Version option whose argument is not the number 1 or the number 2
OutsideOneTwo(o) == ~(Len(o.values) = 1 /\ o.values[1] \in {Num(1), Num(2)})

\* C14 as stated: every registered host has an address, a community and a
\* version of 1 or 2, which is 2 when the block gave no Version; a Host block
\* without a well-formed Address and Community, or with a Version that is not
\* 1 or 2, registers nothing.
C14_AsClaimed ==
  [][(ChildStep /\ Fold(last'.key) = "host")
     => /\ HostsOk(host_head')
        /\ (~last'.required \/ \E i \in 1..Len(last'.versions) :
                                  OutsideOneTwo(last'.versions[i]))
             => host_head' = host_head
        /\ (last'.status = 0 /\ last'.versions = <<>>)
             => host_head'[Len(host_head')].version = 2]_vars

-----------------------------------------------------------------------------
(* A second call of csnmp_read that the driver starts while the first has   *)
(* not returned.  It runs the same code; only its sessions are followed.    *)

OvHost == host_head[ov.host]
ov_frame == <<lp64, cv_vars, reg_vars, cfg_vars, rd_pc, rd_host, rd_i, rd_ret, res, vl, trace>>

\* for (host = host_head; host != NULL; host = host->next), or return (0)
OvNextHost ==
  IF ov.host < Len(host_head) THEN [pc |-> "host", host |-> ov.host + 1, i |-> 0]
  ELSE OvIdle

\* csnmp_read: host_head != NULL, the first host is next
OverlapRead ==
  /\ ov.pc = "idle" /\ cfg_pc = "idle" /\ host_head # <<>>
  /\ ov' = [pc |-> "host", host |-> 1, i |-> 0]
  /\ UNCHANGED <<ov_frame, sessions>>

\* csnmp_read_host: snmp_open succeeds
OverlapHostOpen ==
  /\ ov.pc = "host"
  /\ sessions' = Append(sessions, ov.host)
  /\ ov' = [pc |-> "loop", host |-> ov.host, i |-> 1]
  /\ UNCHANGED ov_frame

\* csnmp_read_host: snmp_open returns NULL
OverlapHostOpenFails ==
  /\ ov.pc = "host"
  /\ ov' = OvNextHost
  /\ UNCHANGED <<ov_frame, sessions>>

\* csnmp_read_host: one pass of its loop, csnmp_read_table or csnmp_read_value
\* with whatever outcome
OverlapEntry ==
  /\ ov.pc = "loop" /\ ov.i <= Len(OvHost.data_list)
  /\ ov' = [ov EXCEPT !.i = ov.i + 1]
  /\ UNCHANGED <<ov_frame, sessions>>

\* csnmp_read_host: snmp_close, return (0)
OverlapHostClose ==
  /\ ov.pc = "loop" /\ ov.i > Len(OvHost.data_list)
  /\ sessions' = Without(sessions, ov.host)
  /\ ov' = OvNextHost
  /\ UNCHANGED ov_frame

OverlapSeeds ==
  {<<GoodData("dm", "snmp_mixed", <<"1.3.6.1.1", "1.3.6.1.2">>),
     TableData("dt", "temperature", <<"1.3.6.1.9">>),
     GoodHost("h1"), GoodHost("h2"), Collect(<<"h1", "dm">>), Collect(<<"h2", "dt">>)>>}

InitOverlap ==
  /\ lp64 = TRUE
  /\ InitCoerceIdle
  /\ \E seed \in OverlapSeeds :
       /\ data_head = Configured(seed).data_head
       /\ host_head = Configured(seed).host_head
  /\ InitCfgDone
  /\ InitRd

NextOverlap ==
  \/ NextRead
  \/ OverlapRead
  \/ OverlapHostOpen
  \/ OverlapHostOpenFails
  \/ OverlapEntry
  \/ OverlapHostClose

SpecOverlap == InitOverlap /\ [][NextOverlap]_vars

\* C15 as stated: with two calls of csnmp_read overlapping, no host has more
\* than one session open at any time.
C15_AsClaimed == \A h \in 1..Len(host_head) : Count(sessions, h) <= 1

-----------------------------------------------------------------------------
(* Table definitions in the poll cycle.                                     *)

\* C16 as stated: a table definition met in the loop of an opened host is
\* walked: requests for its OIDs are sent, and the samples dispatched for it
\* are the rows those requests discovered, one each.
C16_AsClaimed ==
  \A k \in Events("table") :
    /\ NumAt("request", trace[k].host, trace[k].pos) >= 1
    /\ NumAt("dispatch", trace[k].host, trace[k].pos)
         <= NumAt("request", trace[k].host, trace[k].pos)

-----------------------------------------------------------------------------
(* The order of the samples of a cycle.                                     *)

\* C17: the samples of a cycle are dispatched in the order of host_head and,
\* for one host, in the order of its data_list: of two samples the later one
\* is for a later host, or for the same host and a later position.
C17_SampleOrder ==
  \A j, k \in Events("dispatch") :
    j < k =>
      \/ trace[j].host < trace[k].host
      \/ trace[j].host = trace[k].host /\ trace[j].pos < trace[k].pos

\* a cycle has ended in which two hosts dispatched samples, one of them for
\* two positions of its data_list
C17_Witness ==
  /\ CycleDone
  /\ \E i, j, k \in Events("dispatch") :
       /\ i < j /\ j < k
       /\ trace[i].host < trace[j].host
       /\ trace[j].host = trace[k].host /\ trace[j].pos < trace[k].pos

-----------------------------------------------------------------------------
(* Definitions that cannot be polled.                                       *)

\* the scalar entries of the opened hosts whose data set is not defined or
\* has another ds_num than the definition has values
UnusableEntries ==
  {hp \in UNION {{<<trace[k].host, pos>> :
                    pos \in DOMAIN host_head[trace[k].host].data_list} :
                 k \in Events("open")} :
     EntryData(hp).is_table = 0 /\ ~Usable(EntryData(hp))}

\* C18: in every cycle such an entry gets no request and no sample; when the
\* loop has passed it, it has been reported once, as an undefined data set or
\* as a mismatch of the counts; the loop goes on with the next entry, and the
\* session is closed after the last entry.
C18_Unusable ==
  \A hp \in UnusableEntries :
    LET h == hp[1]
        pos == hp[2]
        list == host_head[h].data_list
        reports == {k \in At(h, pos) : trace[k].e \in {"nods", "mismatch"}}
    IN /\ NumAt("request", h, pos) = 0 /\ NumAt("dispatch", h, pos) = 0
       /\ At(h, pos) = reports
       /\ Cardinality(reports) <= 1
       /\ Returned(h, pos) => Cardinality(reports) = 1
       /\ \A k \in reports :
            /\ trace[k].e = IF plugin_get_ds(EntryData(hp).type) = <<>>
                              THEN "nods" ELSE "mismatch"
            /\ k = Len(trace) =>
                 rd_pc = "loop" /\ rd_host = h /\ rd_i = pos + 1 /\ sessions = <<h>>
            /\ k < Len(trace) =>
                 IF pos < Len(list)
                   THEN trace[k + 1].host = h /\ trace[k + 1].pos = pos + 1
                        /\ trace[k + 1].e \in EntryEvents
                   ELSE trace[k + 1] = Ev("close", h, 0)
       /\ CycleDone => NumAt("close", h, 0) = 1

\* a cycle has ended in which a definition with a wrong number of values was
\* passed over and the entry after it was sampled, and a definition of an
\* undefined data set was passed over
C18_Witness ==
  /\ CycleDone
  /\ \E k \in Events("mismatch") :
       NumAt("dispatch", trace[k].host, trace[k].pos + 1) = 1
  /\ Events("nods") # {}

-----------------------------------------------------------------------------
(* Data declarations that give Table and Instance in either order, or leave  *)
(* one of them out.                                                          *)

InstanceOpt(s) == Opt("Instance", <<Str(s)>>)
NoTableOpt == Opt("Table", <<Bool(FALSE)>>)

InstanceOrders ==
  {<<>>, <<InstanceOpt("eth0")>>, <<TableOpt>>, <<NoTableOpt, InstanceOpt("eth0")>>,
   <<TableOpt, InstanceOpt("1.3.6.1.9")>>, <<TableOpt, InstanceOpt("eth0")>>,
   <<InstanceOpt("1.3.6.1.9"), TableOpt>>, <<InstanceOpt("eth0"), TableOpt>>,
   <<TableOpt, InstanceOpt("1.3.6.1.9"), NoTableOpt>>}
InstanceDecls ==
  {Item("Data", <<Str(n)>>, <<TypeOpt, ValuesOpt>> \o cs) :
     n \in {"d1", "d2"}, cs \in InstanceOrders}
  \cup {GoodHost("h1"), Collect(<<"h1", "d1">>), Collect(<<"h1", "d2">>)}

InitInstance == InitDecl

NextInstance ==
  \/ CsnmpConfigCall
  \/ \E child \in InstanceDecls : CsnmpConfigChild(child)
  \/ CsnmpConfigReturn

SpecInstance == InitInstance /\ [][NextInstance]_vars

\* C19: every registered data definition has an instance set, stored as a
\* literal string when its is_table is false and as an OID when it is true,
\* whatever the order of Table and Instance in the block, Instance before Table
\* and Instance left out included.
C19_AsClaimed ==
  \A d \in 1..Len(data_head) :
    /\ data_head[d].instance.form # "zero"
    /\ data_head[d].is_table = 0 => data_head[d].instance.form = "string"
    /\ data_head[d].is_table # 0 => data_head[d].instance.form = "oid"

-----------------------------------------------------------------------------
(* Collect declarations over registries that hold several entries of one     *)
(* name up to case.                                                          *)

LookupSeeds ==
  {<<GoodData("d1", "if_octets", <<"1.3.6.1.1", "1.3.6.1.2">>),
     GoodData("D1", "temperature", <<"1.3.6.1.9">>),
     GoodData("d2", "temperature", <<"1.3.6.1.9">>), GoodHost("h1"), GoodHost("H1")>>,
   <<GoodData("D1", "temperature", <<"1.3.6.1.9">>),
     GoodData("d1", "if_octets", <<"1.3.6.1.1", "1.3.6.1.2">>),
     GoodData("d1", "temperature", <<"1.3.6.1.9">>), GoodHost("H1"), GoodHost("h1")>>}

LookupHostNames == {"H1", "nosuch"}
LookupDataNames == {"D1", "D2", "nosuch"}
LookupDecls ==
  {Item("Collect", <<Str(h)>> \o [i \in 1..Len(ds) |-> Str(ds[i])], <<>>) :
     h \in LookupHostNames, ds \in SeqsUpTo(LookupDataNames, 1, MaxArgs)}

InitLookup ==
  /\ lp64 = TRUE
  /\ InitCoerceIdle
  /\ \E seed \in LookupSeeds :
       /\ data_head = Configured(seed).data_head
       /\ host_head = Configured(seed).host_head
  /\ InitCfgDone
  /\ InitRd

NextLookup ==
  \/ CsnmpConfigCall
  \/ \E child \in LookupDecls : CsnmpConfigChild(child)
  \/ CsnmpConfigReturn

SpecLookup == InitLookup /\ [][NextLookup]_vars

\* the entries of a registry that carry `name' up to case
Namesakes(list, name) == {j \in 1..Len(list) : Fold(list[j].name) = Fold(name)}
Earliest(S) == CHOOSE j \in S : \A k \in S : j <= k

\* C20: a Collect declaration resolves its host name and each of its data names
\* without regard to case; a host name no registered host carries makes the
\* declaration fail and bind nothing, a data name no definition carries adds no
\* entry; among several entries of one name up to case, the entry bound is the
\* one registered first.
C20_Lookup ==
  [][(/\ ChildStep
      /\ Fold(last'.key) = "collect"
      /\ Len(last'.values) >= 2
      /\ AllStrings(last'.values))
     => LET hosts == Namesakes(host_head, last'.values[1].string)
            names == SubSeq(last'.values, 2, Len(last'.values))
            found == SelectSeq(names, LAMBDA v : Namesakes(data_head, v.string) # {})
        IN IF hosts = {}
             THEN last'.status = -1 /\ host_head' = host_head
             ELSE LET h == Earliest(hosts)
                      old == host_head[h].data_list
                      new == host_head'[h].data_list
                  IN /\ last'.status = 0
                     /\ \A j \in 1..Len(host_head) : j # h => host_head'[j] = host_head[j]
                     /\ Len(new) = Len(old) + Len(found)
                     /\ SubSeq(new, 1, Len(old)) = old
                     /\ \A i \in 1..Len(found) :
                          new[Len(old) + i] = Earliest(Namesakes(data_head, found[i].string))]_vars

\* every registry holds two entries of one name up to case: a duplicate name
\* was registered
C20_Duplicates ==
  /\ \E a, b \in 1..Len(data_head) : a # b /\ Fold(data_head[a].name) = Fold(data_head[b].name)
  /\ \E a, b \in 1..Len(host_head) : a # b /\ Fold(host_head[a].name) = Fold(host_head[b].name)

\* a Collect has named, in a case other than the registered one, a host and a
\* definition that each have a later namesake, and a name nothing carries; the
\* first host holds the first definition and the later host holds nothing
C20_Witness ==
  /\ C20_Duplicates
  /\ Fold(last.key) = "collect" /\ last.status = 0 /\ Len(last.values) = 3
  /\ last.values[1].string # host_head[1].name
  /\ Fold(last.values[1].string) = Fold(host_head[1].name)
  /\ last.values[2].string # data_head[1].name
  /\ Fold(last.values[2].string) = Fold(data_head[1].name)
  /\ Namesakes(data_head, last.values[3].string) = {}
  /\ host_head[1].data_list = <<1>>
  /\ host_head[2].data_list = <<>>

-----------------------------------------------------------------------------
(* The initialization of the transport library.                              *)

\* C21: over any sequence of calls of csnmp_config and csnmp_init, one after
\* the other, in any order and number, init_snmp has been called exactly once
\* as soon as one call has been made, by that first call, and no later call
\* calls it again; it has not been called before any call.
C21_InitOnce ==
  /\ calls = "none" => init_calls = 0
  /\ calls # "none" => init_calls = 1

\* csnmp_init was called first, and a call of csnmp_config is under way after
\* it: two calls, one of each kind
C21_Witness ==
  /\ calls = "more" /\ cfg_pc = "children" /\ cfg_ret = <<>>
  /\ init_calls = 1 /\ have_init = 1

=============================================================================
